---- MODULE Spec2Model ----
(***************************************************************************)
(* Model of appengine/identity.go: the identity accessors of the App       *)
(* Engine Go SDK.  Five accessors (ModuleHostname, AccessToken,            *)
(* PublicCertificates, ServiceAccount, SignBytes) build a request, block   *)
(* in one c.Call and turn the call's outcome into their results;           *)
(* BackendInstance reads two values of the runtime.  Goroutines run the    *)
(* accessors concurrently; an accessor is split at its c.Call, the only    *)
(* place where it blocks.                                                  *)
(*                                                                         *)
(* Encodings.  A pointer (an optional protobuf field) is <<>> when nil and *)
(* <<v>> when it points to v.  A slice is [nil, elems], so that a nil      *)
(* slice and an empty one differ as they do in Go.  Strings that the code  *)
(* only passes on are TLA+ strings; strings that the code looks into or    *)
(* converts (version IDs, PEM text) are sequences of characters.  An error *)
(* is a string, NilErr being the nil error.  A time.Time is either the     *)
(* zero Time or [sec, nsec] relative to the Unix epoch (the zero Time lies *)
(* 62135596800 s before the epoch, outside the integers TLC has).          *)
(***************************************************************************)
EXTENDS Integers, Sequences, FiniteSets, TLC

\* ---- bounds of the model ----
MaxScopes == 2       \* longest scope list passed to AccessToken
MaxCerts == 2        \* longest certificate list a response holds
MaxBytes == 1        \* longest byte sequence passed to SignBytes
MaxVersionLen == 3   \* longest version ID the runtime reports

Procs == {"g1", "g2"}    \* goroutines calling the accessors

NilErr == "nil"
Errors == {"e1", "e2"}   \* the non-nil errors c.Call may return

Nil == <<>>
Ptr(v) == <<v>>

NilSlice == [nil |-> TRUE, elems |-> <<>>]
Slice(s) == [nil |-> FALSE, elems |-> s]

SeqsUpTo(S, n) == UNION {[1..k -> S] : k \in 0..n}
SlicesUpTo(S, n) == {NilSlice} \cup {Slice(s) : s \in SeqsUpTo(S, n)}

\* append(sl, x): the result is never nil
GoAppend(sl, x) == [nil |-> FALSE, elems |-> Append(sl.elems, x)]

\* the generated getters: the field's value, or the type's zero value when
\* the field is not set
GetString(p) == IF p = Nil THEN "" ELSE p[1]
GetText(p) == IF p = Nil THEN <<>> ELSE p[1]
GetInt(p) == IF p = Nil THEN 0 ELSE p[1]

\* ---- BackendInstance (lines 21-33) ----
VersionChars == {"v", "."}
Versions == SeqsUpTo(VersionChars, MaxVersionLen)
BackendIndexes == {-1, 0, 1}

\* strings.Index(s, "."): 0-based index of the first ".", or -1
StringsIndex(s, ch) ==
    IF \E i \in 1..Len(s) : s[i] = ch
    THEN (CHOOSE i \in 1..Len(s) : s[i] = ch /\ \A j \in 1..(i-1) : s[j] # ch) - 1
    ELSE -1

\* name[:i]
Prefix(s, i) == SubSeq(s, 1, i)

\* variant: cuts before the last "." instead of the first
BackendName_LastDot(version) ==
    LET dots == {i \in 1..Len(version) : version[i] = "."}
    IN IF dots = {} THEN version
       ELSE Prefix(version, (CHOOSE i \in dots : \A j \in dots : j <= i) - 1)

\* lines 28-31: the version ID cut before its first "."
BackendName(version) ==
    LET i == StringsIndex(version, ".")
    IN IF i > -1 THEN Prefix(version, i) ELSE version

\* ---- ModuleHostname (lines 59-75) ----
ArgStrings == {"", "a"}
Hostnames == {Nil, Ptr(""), Ptr("h.example")}

\* variant: Version is set even when the argument is empty
ModuleHostnameReq_VersionAlwaysSet(module, version, instance) ==
    [Module   |-> IF module # "" THEN Ptr(module) ELSE Nil,
     Version  |-> Ptr(version),
     Instance |-> IF instance # "" THEN Ptr(instance) ELSE Nil]

\* lines 60-69
ModuleHostnameReq(module, version, instance) ==
    [Module   |-> IF module # "" THEN Ptr(module) ELSE Nil,
     Version  |-> IF version # "" THEN Ptr(version) ELSE Nil,
     Instance |-> IF instance # "" THEN Ptr(instance) ELSE Nil]

\* line 71: the call issued
ModuleHostnameCalls(module, version, instance) ==
    << [service |-> "modules", method |-> "GetHostname",
        req |-> ModuleHostnameReq(module, version, instance)] >>

ModuleHostnameResponses == {[Hostname |-> h] : h \in Hostnames}

\* lines 71-74: *res.Hostname panics on a nil pointer
ModuleHostnameRet(err, res) ==
    IF err # NilErr THEN [panic |-> FALSE, hostname |-> "", err |-> err]
    ELSE IF res.Hostname = Nil THEN [panic |-> TRUE]
    ELSE [panic |-> FALSE, hostname |-> res.Hostname[1], err |-> NilErr]

\* ---- AccessToken (lines 100-109) ----
ScopeNames == {"s1", "s2"}
ScopeLists == SlicesUpTo(ScopeNames, MaxScopes)
ExpirationTimes == {Nil, Ptr(0), Ptr(5)}
Tokens == {Nil, Ptr("tok")}

ZeroTime == [zero |-> TRUE, sec |-> 0, nsec |-> 0]

\* time.Unix(sec, nsec): nsec outside [0, 1e9) is carried into sec
TimeUnix(sec, nsec) ==
    LET n == IF nsec < 0 \/ nsec >= 1000000000
             THEN (IF nsec >= 0 THEN nsec \div 1000000000
                   ELSE -((-nsec) \div 1000000000))
             ELSE 0
        s1 == sec + n
        ns1 == nsec - n * 1000000000
    IN IF ns1 < 0 THEN [zero |-> FALSE, sec |-> s1 - 1, nsec |-> ns1 + 1000000000]
       ELSE [zero |-> FALSE, sec |-> s1, nsec |-> ns1]

Reverse(s) == [i \in 1..Len(s) |-> s[Len(s) + 1 - i]]

\* variant: the scopes are sent in reverse order
AccessTokenReq_Reversed(scopes) == [Scope |-> [scopes EXCEPT !.elems = Reverse(@)]]

\* line 101
AccessTokenReq(scopes) == [Scope |-> scopes]

\* line 104
AccessTokenCalls(scopes) ==
    << [service |-> "app_identity_service", method |-> "GetAccessToken",
        req |-> AccessTokenReq(scopes)] >>

AccessTokenResponses ==
    {[AccessToken |-> t, ExpirationTime |-> x] : t \in Tokens, x \in ExpirationTimes}

\* variant: on an error the token the call left behind is returned
AccessTokenRet_KeepsToken(err, res) ==
    IF err # NilErr
    THEN [panic |-> FALSE, token |-> GetString(res.AccessToken), expiry |-> ZeroTime, err |-> err]
    ELSE [panic |-> FALSE, token |-> GetString(res.AccessToken),
          expiry |-> TimeUnix(GetInt(res.ExpirationTime), 0), err |-> NilErr]

\* lines 105-108
AccessTokenRet(err, res) ==
    IF err # NilErr
    THEN [panic |-> FALSE, token |-> "", expiry |-> ZeroTime, err |-> err]
    ELSE [panic |-> FALSE, token |-> GetString(res.AccessToken),
          expiry |-> TimeUnix(GetInt(res.ExpirationTime), 0), err |-> NilErr]

\* ---- PublicCertificates (lines 119-133) ----
KeyNames == {Nil, Ptr("key1")}
CertEntries ==
    { [KeyName |-> Ptr("key1"), X509CertificatePem |-> Ptr(<<"P", "1">>)],
      [KeyName |-> Ptr("key2"), X509CertificatePem |-> Ptr(<<"P">>)],
      [KeyName |-> Nil, X509CertificatePem |-> Nil] }

\* line 122
PublicCertificatesCalls ==
    << [service |-> "app_identity_service", method |-> "GetPublicCertificatesForApp",
        req |-> [empty |-> TRUE]] >>

PublicCertificatesResponses ==
    {[PublicCertificateList |-> l] : l \in SeqsUpTo(CertEntries, MaxCerts)}

\* []byte(s): a fresh, non-nil slice holding the bytes of s
BytesOf(s) == Slice(s)

\* lines 127-130
Certificate(pc) ==
    [KeyName |-> GetString(pc.KeyName), Data |-> BytesOf(GetText(pc.X509CertificatePem))]

\* lines 125-131: the loop, from a nil slice
RECURSIVE CertsFrom(_, _)
CertsFrom(list, cs) ==
    IF list = <<>> THEN cs
    ELSE CertsFrom(Tail(list), GoAppend(cs, Certificate(Head(list))))

\* variant: a certificate equal to the one just appended is skipped
RECURSIVE CertsFromNoRepeat(_, _)
CertsFromNoRepeat(list, cs) ==
    IF list = <<>> THEN cs
    ELSE LET c == Certificate(Head(list))
         IN IF cs.elems # <<>> /\ cs.elems[Len(cs.elems)] = c
            THEN CertsFromNoRepeat(Tail(list), cs)
            ELSE CertsFromNoRepeat(Tail(list), GoAppend(cs, c))

PublicCertificatesRet_NoRepeat(err, res) ==
    IF err # NilErr THEN [panic |-> FALSE, certs |-> NilSlice, err |-> err]
    ELSE [panic |-> FALSE, certs |-> CertsFromNoRepeat(res.PublicCertificateList, NilSlice),
          err |-> NilErr]

\* lines 122-132
PublicCertificatesRet(err, res) ==
    IF err # NilErr THEN [panic |-> FALSE, certs |-> NilSlice, err |-> err]
    ELSE [panic |-> FALSE, certs |-> CertsFrom(res.PublicCertificateList, NilSlice),
          err |-> NilErr]

\* ---- ServiceAccount (lines 137-146) ----
ServiceAccountNames == {Nil, Ptr("app@appspot.gserviceaccount.com")}

\* line 141
ServiceAccountCalls ==
    << [service |-> "app_identity_service", method |-> "GetServiceAccountName",
        req |-> [empty |-> TRUE]] >>

ServiceAccountResponses == {[ServiceAccountName |-> n] : n \in ServiceAccountNames}

\* lines 142-145
ServiceAccountRet(err, res) ==
    IF err # NilErr THEN [panic |-> FALSE, name |-> "", err |-> err]
    ELSE [panic |-> FALSE, name |-> GetString(res.ServiceAccountName), err |-> err]

\* ---- SignBytes (lines 149-157) ----
ByteValues == {1, 2}
ByteLists == SlicesUpTo(ByteValues, MaxBytes)
Signatures == {NilSlice, Slice(<<9>>)}

\* line 150
SignBytesReq(bytes) == [BytesToSign |-> bytes]

\* variant: the call goes to the modules service
SignBytesCalls_OtherService(bytes) ==
    << [service |-> "modules", method |-> "SignForApp", req |-> SignBytesReq(bytes)] >>

\* line 153
SignBytesCalls(bytes) ==
    << [service |-> "app_identity_service", method |-> "SignForApp",
        req |-> SignBytesReq(bytes)] >>

SignBytesResponses ==
    {[KeyName |-> k, SignatureBytes |-> s] : k \in KeyNames, s \in Signatures}

\* variant: a response without a key name yields no signature
SignBytesRet_NeedsKeyName(err, res) ==
    IF err # NilErr THEN [panic |-> FALSE, keyName |-> "", signature |-> NilSlice, err |-> err]
    ELSE [panic |-> FALSE, keyName |-> GetString(res.KeyName),
          signature |-> IF res.KeyName = Nil THEN NilSlice ELSE res.SignatureBytes,
          err |-> NilErr]

\* lines 153-156
SignBytesRet(err, res) ==
    IF err # NilErr THEN [panic |-> FALSE, keyName |-> "", signature |-> NilSlice, err |-> err]
    ELSE [panic |-> FALSE, keyName |-> GetString(res.KeyName),
          signature |-> res.SignatureBytes, err |-> NilErr]

\* ---- init (lines 159-162) ----
InitErrorCodeMaps == {"app_identity_service", "modules"}

RpcFns == {"ModuleHostname", "AccessToken", "PublicCertificates", "ServiceAccount", "SignBytes"}

\* ---- state ----
VARIABLES
    errorCodeMaps,  \* services whose error-code name table is registered
    initRuns,       \* how many times the package's init has run
    pc,             \* per goroutine: "idle", "calling", "returned", "panicked"
    fn,             \* per goroutine: the accessor it is in ("" when idle)
    args,           \* per goroutine: that invocation's arguments
    calls,          \* per goroutine: the c.Call's of that invocation, in order
    callErr,        \* per goroutine: the error its c.Call returned
    res,            \* per goroutine: the response object after its c.Call
    ret             \* per goroutine: the values the accessor returned

locals == <<pc, fn, args, calls, callErr, res, ret>>
registry == <<errorCodeMaps, initRuns>>
vars == <<errorCodeMaps, initRuns, pc, fn, args, calls, callErr, res, ret>>

NoValue == <<>>

Init ==
    /\ errorCodeMaps = {}
    /\ initRuns = 0
    /\ pc = [p \in Procs |-> "idle"]
    /\ fn = [p \in Procs |-> ""]
    /\ args = [p \in Procs |-> NoValue]
    /\ calls = [p \in Procs |-> <<>>]
    /\ callErr = [p \in Procs |-> NilErr]
    /\ res = [p \in Procs |-> NoValue]
    /\ ret = [p \in Procs |-> NoValue]

\* init() runs once, when the program starts, before any goroutine of the
\* application
PackageInit ==
    /\ initRuns = 0
    /\ errorCodeMaps' = errorCodeMaps \cup InitErrorCodeMaps
    /\ initRuns' = initRuns + 1
    /\ UNCHANGED locals

\* An accessor runs up to its c.Call: the request is built and the call issued.
Enter(p, f, a, cs) ==
    /\ initRuns = 1
    /\ pc[p] = "idle"
    /\ pc' = [pc EXCEPT ![p] = "calling"]
    /\ fn' = [fn EXCEPT ![p] = f]
    /\ args' = [args EXCEPT ![p] = a]
    /\ calls' = [calls EXCEPT ![p] = cs]
    /\ UNCHANGED <<callErr, res, ret, registry>>

\* c.Call comes back with error e, having left rs in the response object, and
\* the accessor runs to its end with results r.
Leave(p, e, rs, r) ==
    /\ pc[p] = "calling"
    /\ callErr' = [callErr EXCEPT ![p] = e]
    /\ res' = [res EXCEPT ![p] = rs]
    /\ ret' = [ret EXCEPT ![p] = r]
    /\ pc' = [pc EXCEPT ![p] = IF r.panic THEN "panicked" ELSE "returned"]
    /\ UNCHANGED <<fn, args, calls, registry>>

CallErrors == {NilErr} \cup Errors

ModuleHostnameCall(p) ==
    /\ fn[p] = ""
    /\ \E module \in ArgStrings, version \in ArgStrings, instance \in ArgStrings :
           Enter(p, "ModuleHostname",
                 [module |-> module, version |-> version, instance |-> instance],
                 ModuleHostnameCalls(module, version, instance))

ModuleHostnameReturn(p) ==
    /\ fn[p] = "ModuleHostname"
    /\ \E e \in CallErrors, rs \in ModuleHostnameResponses :
           Leave(p, e, rs, ModuleHostnameRet(e, rs))

AccessTokenCall(p) ==
    /\ fn[p] = ""
    /\ \E scopes \in ScopeLists :
           Enter(p, "AccessToken", [scopes |-> scopes], AccessTokenCalls(scopes))

AccessTokenReturn(p) ==
    /\ fn[p] = "AccessToken"
    /\ \E e \in CallErrors, rs \in AccessTokenResponses :
           Leave(p, e, rs, AccessTokenRet(e, rs))

PublicCertificatesCall(p) ==
    /\ fn[p] = ""
    /\ Enter(p, "PublicCertificates", NoValue, PublicCertificatesCalls)

PublicCertificatesReturn(p) ==
    /\ fn[p] = "PublicCertificates"
    /\ \E e \in CallErrors, rs \in PublicCertificatesResponses :
           Leave(p, e, rs, PublicCertificatesRet(e, rs))

ServiceAccountCall(p) ==
    /\ fn[p] = ""
    /\ Enter(p, "ServiceAccount", NoValue, ServiceAccountCalls)

\* variant: a failed call is issued once more
ServiceAccountReturn_Retry(p) ==
    /\ fn[p] = "ServiceAccount"
    /\ \E e \in CallErrors, rs \in ServiceAccountResponses :
           IF e # NilErr /\ Len(calls[p]) < 2
           THEN /\ pc[p] = "calling"
                /\ calls' = [calls EXCEPT ![p] = calls[p] \o ServiceAccountCalls]
                /\ UNCHANGED <<pc, fn, args, callErr, res, ret, registry>>
           ELSE Leave(p, e, rs, ServiceAccountRet(e, rs))

ServiceAccountReturn(p) ==
    /\ fn[p] = "ServiceAccount"
    /\ \E e \in CallErrors, rs \in ServiceAccountResponses :
           Leave(p, e, rs, ServiceAccountRet(e, rs))

SignBytesCall(p) ==
    /\ fn[p] = ""
    /\ \E bytes \in ByteLists :
           Enter(p, "SignBytes", [bytes |-> bytes], SignBytesCalls(bytes))

\* variant: the response object is shared by all goroutines, so an invocation
\* may read what another invocation's call left in it
SignBytesReturn_SharedResponse(p) ==
    /\ fn[p] = "SignBytes"
    /\ \E e \in CallErrors, rs \in SignBytesResponses :
           LET others == {q \in Procs \ {p} : fn[q] = "SignBytes" /\ pc[q] = "returned"}
               seen == IF others = {} THEN rs ELSE res[CHOOSE q \in others : TRUE]
           IN Leave(p, e, rs, SignBytesRet(e, seen))

SignBytesReturn(p) ==
    /\ fn[p] = "SignBytes"
    /\ \E e \in CallErrors, rs \in SignBytesResponses :
           Leave(p, e, rs, SignBytesRet(e, rs))

\* BackendInstance makes no call: it reads the backend index and, unless that
\* is -1, the version ID, both from the runtime.
BackendInstance(p) ==
    /\ initRuns = 1
    /\ pc[p] = "idle"
    /\ \E index \in BackendIndexes, version \in Versions :
           /\ index = -1 => version = <<>>
           /\ args' = [args EXCEPT ![p] = [index |-> index, version |-> version]]
           /\ ret' = [ret EXCEPT ![p] =
                  IF index = -1
                  THEN [panic |-> FALSE, name |-> <<>>, index |-> index, versionLookups |-> 0]
                  ELSE [panic |-> FALSE, name |-> BackendName(version), index |-> index,
                        versionLookups |-> 1]]
    /\ pc' = [pc EXCEPT ![p] = "returned"]
    /\ fn' = [fn EXCEPT ![p] = "BackendInstance"]
    /\ UNCHANGED <<calls, callErr, res, registry>>

\* The caller has its results (or the panic has unwound) and the goroutine
\* is free for its next invocation; nothing of the invocation is kept.
Done(p) ==
    /\ pc[p] \in {"returned", "panicked"}
    /\ pc' = [pc EXCEPT ![p] = "idle"]
    /\ fn' = [fn EXCEPT ![p] = ""]
    /\ args' = [args EXCEPT ![p] = NoValue]
    /\ calls' = [calls EXCEPT ![p] = <<>>]
    /\ callErr' = [callErr EXCEPT ![p] = NilErr]
    /\ res' = [res EXCEPT ![p] = NoValue]
    /\ ret' = [ret EXCEPT ![p] = NoValue]
    /\ UNCHANGED registry

Next ==
    \/ PackageInit
    \/ \E p \in Procs : ModuleHostnameCall(p)
    \/ \E p \in Procs : ModuleHostnameReturn(p)
    \/ \E p \in Procs : AccessTokenCall(p)
    \/ \E p \in Procs : AccessTokenReturn(p)
    \/ \E p \in Procs : PublicCertificatesCall(p)
    \/ \E p \in Procs : PublicCertificatesReturn(p)
    \/ \E p \in Procs : ServiceAccountCall(p)
    \/ \E p \in Procs : ServiceAccountReturn(p)
    \/ \E p \in Procs : SignBytesCall(p)
    \/ \E p \in Procs : SignBytesReturn(p)
    \/ \E p \in Procs : BackendInstance(p)
    \/ \E p \in Procs : Done(p)

Spec == Init /\ [][Next]_vars

\* ---- properties ----
Finished(p) == pc[p] \in {"returned", "panicked"}
Succeeded(p, f) == pc[p] = "returned" /\ fn[p] = f /\ callErr[p] = NilErr
Request(p) == calls[p][1].req

\* C1: whenever the c.Call of ModuleHostname, AccessToken, PublicCertificates,
\* ServiceAccount or SignBytes returns a non-nil error, the accessor returns
\* (it does not panic), its error is that very error and every other result
\* is the zero value, whatever the call left in the response object.
C1_CallErrorReturnedUnchanged ==
    \A p \in Procs :
        (Finished(p) /\ fn[p] \in RpcFns /\ callErr[p] # NilErr) =>
            /\ pc[p] = "returned"
            /\ ret[p].err = callErr[p]
            /\ fn[p] = "ModuleHostname" => ret[p].hostname = ""
            /\ fn[p] = "AccessToken" => ret[p].token = "" /\ ret[p].expiry = ZeroTime
            /\ fn[p] = "PublicCertificates" => ret[p].certs = NilSlice
            /\ fn[p] = "ServiceAccount" => ret[p].name = ""
            /\ fn[p] = "SignBytes" => ret[p].keyName = "" /\ ret[p].signature = NilSlice

\* an AccessToken call failed with e2 and left a token and an expiry behind,
\* while a SignBytes call failed with e1 and left a signature behind
C1_Witness ==
    /\ pc["g1"] = "returned" /\ fn["g1"] = "AccessToken" /\ callErr["g1"] = "e2"
    /\ res["g1"] = [AccessToken |-> Ptr("tok"), ExpirationTime |-> Ptr(5)]
    /\ pc["g2"] = "returned" /\ fn["g2"] = "SignBytes" /\ callErr["g2"] = "e1"
    /\ res["g2"].SignatureBytes = Slice(<<9>>)

\* C2: when its call succeeds with a list of N certificates, PublicCertificates
\* returns a nil error and N records; the i-th record has the i-th entry's
\* key name and the bytes of the i-th entry's PEM string.
C2_CertificatesMatchResponse ==
    \A p \in Procs :
        Succeeded(p, "PublicCertificates") =>
            LET l == res[p].PublicCertificateList
                cs == ret[p].certs.elems
            IN /\ ret[p].err = NilErr
               /\ Len(cs) = Len(l)
               /\ \A i \in 1..Len(l) :
                      /\ cs[i].KeyName = GetString(l[i].KeyName)
                      /\ cs[i].Data.elems = GetText(l[i].X509CertificatePem)

\* a response with the same certificate twice gave two records
C2_Witness ==
    \E p \in Procs :
        /\ Succeeded(p, "PublicCertificates")
        /\ Len(res[p].PublicCertificateList) = 2
        /\ res[p].PublicCertificateList[1] = res[p].PublicCertificateList[2]
        /\ res[p].PublicCertificateList[1].KeyName = Ptr("key1")
        /\ Len(ret[p].certs.elems) = 2

\* C3: an invocation of an RPC-backed accessor issues exactly one c.Call: one
\* is issued before the accessor blocks, whatever its arguments, and none is
\* added afterwards, whatever the call's outcome.
C3_ExactlyOneCall ==
    \A p \in Procs : (pc[p] # "idle" /\ fn[p] \in RpcFns) => Len(calls[p]) = 1

\* ModuleHostname with all-empty arguments has failed, and one call was made
C3_Witness ==
    \E p \in Procs :
        /\ pc[p] = "returned" /\ fn[p] = "ModuleHostname" /\ callErr[p] # NilErr
        /\ args[p] = [module |-> "", version |-> "", instance |-> ""]
        /\ Len(calls[p]) = 1

\* C4: every invocation ends by returning, either the decoded results with a
\* nil error or the call's error; in particular ModuleHostname returns the
\* response's hostname and a nil error whenever its call returns a nil error,
\* also when the Hostname field was not set. No invocation panics.
C4_NoThirdOutcome ==
    \A p \in Procs :
        /\ pc[p] # "panicked"
        /\ Succeeded(p, "ModuleHostname") =>
               ret[p].hostname = GetString(res[p].Hostname) /\ ret[p].err = NilErr

\* C5: BackendInstance returns ("", -1), without looking up the version ID,
\* when the backend index is -1; otherwise the index and the version ID cut
\* before its first "." (all of it when it has none).
C5_BackendInstance ==
    \A p \in Procs :
        (pc[p] = "returned" /\ fn[p] = "BackendInstance") =>
            LET v == args[p].version
                n == ret[p].name
            IN /\ ret[p].index = args[p].index
               /\ args[p].index = -1 => n = <<>> /\ ret[p].versionLookups = 0
               /\ args[p].index # -1 =>
                      /\ Len(n) <= Len(v)
                      /\ \A i \in 1..Len(n) : n[i] = v[i] /\ n[i] # "."
                      /\ Len(n) < Len(v) => v[Len(n) + 1] = "."

\* a version ID with two dots was cut at the first one
C5_Witness ==
    \E p \in Procs :
        /\ pc[p] = "returned" /\ fn[p] = "BackendInstance"
        /\ args[p] = [index |-> 1, version |-> <<"v", ".", ".">>]
        /\ ret[p].name = <<"v">>

\* C6: in ModuleHostname's request each of Module, Version and Instance is set
\* iff its argument is non-empty, and then holds the argument.
C6_HostnameRequestFields ==
    \A p \in Procs :
        (pc[p] # "idle" /\ fn[p] = "ModuleHostname") =>
            LET r == Request(p)
                a == args[p]
            IN /\ (r.Module # Nil) <=> (a.module # "")
               /\ (r.Version # Nil) <=> (a.version # "")
               /\ (r.Instance # Nil) <=> (a.instance # "")
               /\ r.Module # Nil => r.Module = Ptr(a.module)
               /\ r.Version # Nil => r.Version = Ptr(a.version)
               /\ r.Instance # Nil => r.Instance = Ptr(a.instance)

\* module and instance given, version empty
C6_Witness ==
    \E p \in Procs :
        /\ pc[p] = "calling" /\ fn[p] = "ModuleHostname"
        /\ args[p] = [module |-> "a", version |-> "", instance |-> "a"]
        /\ Request(p) = [Module |-> Ptr("a"), Version |-> Nil, Instance |-> Ptr("a")]

\* C7: when its call succeeds AccessToken returns the response's token, a nil
\* error and the instant expiration_time whole seconds after the Unix epoch;
\* its request carries the caller's scopes as given.
C7_AccessToken ==
    \A p \in Procs :
        /\ (pc[p] # "idle" /\ fn[p] = "AccessToken") => Request(p).Scope = args[p].scopes
        /\ Succeeded(p, "AccessToken") =>
               /\ ret[p].token = GetString(res[p].AccessToken)
               /\ ret[p].err = NilErr
               /\ ret[p].expiry =
                      [zero |-> FALSE, sec |-> GetInt(res[p].ExpirationTime), nsec |-> 0]

\* two different scopes, a token expiring 5 s after the epoch
C7_Witness ==
    \E p \in Procs :
        /\ Succeeded(p, "AccessToken")
        /\ args[p].scopes = Slice(<<"s1", "s2">>)
        /\ res[p] = [AccessToken |-> Ptr("tok"), ExpirationTime |-> Ptr(5)]
        /\ ret[p].expiry.sec = 5

ServiceMethod ==
    [ModuleHostname     |-> <<"modules", "GetHostname">>,
     AccessToken        |-> <<"app_identity_service", "GetAccessToken">>,
     PublicCertificates |-> <<"app_identity_service", "GetPublicCertificatesForApp">>,
     ServiceAccount     |-> <<"app_identity_service", "GetServiceAccountName">>,
     SignBytes          |-> <<"app_identity_service", "SignForApp">>]

\* C8: each RPC-backed accessor calls its one fixed (service, method) pair, and
\* every service called has its error-code name table registered; the tables
\* registered are those of app_identity_service and modules.
C8_FixedServiceMethod ==
    /\ initRuns = 1 => errorCodeMaps = {"app_identity_service", "modules"}
    /\ \A p \in Procs : \A i \in 1..Len(calls[p]) :
           /\ <<calls[p][i].service, calls[p][i].method>> = ServiceMethod[fn[p]]
           /\ calls[p][i].service \in errorCodeMaps

\* a call to each of the two services is in flight
C8_Witness ==
    /\ pc["g1"] = "calling" /\ fn["g1"] = "ModuleHostname"
    /\ pc["g2"] = "calling" /\ fn["g2"] = "SignBytes"

\* C9: when its call succeeds SignBytes returns the response's key name and
\* signature with a nil error, its request holding the caller's bytes as
\* given; and ServiceAccount returns the response's account name with a nil
\* error.
C9_SignBytesAndServiceAccount ==
    \A p \in Procs :
        /\ (pc[p] # "idle" /\ fn[p] = "SignBytes") =>
               Request(p).BytesToSign = args[p].bytes
        /\ Succeeded(p, "SignBytes") =>
               /\ ret[p].keyName = GetString(res[p].KeyName)
               /\ ret[p].signature = res[p].SignatureBytes
               /\ ret[p].err = NilErr
        /\ Succeeded(p, "ServiceAccount") =>
               /\ ret[p].name = GetString(res[p].ServiceAccountName)
               /\ ret[p].err = NilErr

\* SignBytes of a nil slice got a signature without a key name, and
\* ServiceAccount got a name
C9_Witness ==
    /\ Succeeded("g1", "SignBytes") /\ args["g1"].bytes = NilSlice
    /\ res["g1"] = [KeyName |-> Nil, SignatureBytes |-> Slice(<<9>>)]
    /\ Succeeded("g2", "ServiceAccount") /\ res["g2"].ServiceAccountName # Nil

SameInvocation(p, q) == fn[p] = fn[q] /\ args[p] = args[q]

C10_State ==
    /\ initRuns <= 1
    /\ initRuns = 1 => errorCodeMaps = {"app_identity_service", "modules"}
    /\ \A p \in Procs : pc[p] # "idle" => initRuns = 1
    /\ \A p, q \in Procs :
           /\ (pc[p] # "idle" /\ pc[q] # "idle" /\ SameInvocation(p, q)) =>
                  calls[p] = calls[q]
           /\ (Finished(p) /\ Finished(q) /\ SameInvocation(p, q)
                  /\ callErr[p] = callErr[q] /\ res[p] = res[q]) =>
                  pc[p] = pc[q] /\ ret[p] = ret[q]

C10_Step ==
    /\ initRuns = 1 => errorCodeMaps' = errorCodeMaps /\ initRuns' = initRuns
    /\ \A q \in Procs :
           pc'[q] = pc[q] =>
               /\ fn'[q] = fn[q] /\ args'[q] = args[q] /\ calls'[q] = calls[q]
               /\ callErr'[q] = callErr[q] /\ res'[q] = res[q] /\ ret'[q] = ret[q]

\* C10: the error-code name tables are registered once, before any accessor
\* runs, and no accessor changes them; under any interleaving a step of one
\* goroutine leaves every other goroutine's invocation as it was, the request
\* of an invocation is decided by its arguments alone, and its results by its
\* arguments and the outcome of its own call alone.
C10_NoSharedState == []C10_State /\ [][C10_Step]_vars

\* one invocation has failed while another of the same accessor, with the
\* same arguments, is still in its call
C10_Witness ==
    /\ pc["g1"] = "returned" /\ fn["g1"] = "SignBytes" /\ callErr["g1"] = "e1"
    /\ pc["g2"] = "calling" /\ fn["g2"] = "SignBytes"
    /\ args["g1"] = args["g2"]
====
